---- MODULE Spec2Model ----
(***************************************************************************)
(* Pond Pipeline: the immutable Pipeline builder, the processor chain, the *)
(* windowing / grouping accumulation of the aggregator, and the batch and  *)
(* stream wiring done by to().                                             *)
(***************************************************************************)
EXTENDS Integers, Sequences, FiniteSets, TLC

\* Number of addEvent calls explored on the unbounded source.
MaxEvents == 4
\* windowBy("1h"): one hour, in the model's time unit of 30 minutes.
OneHour == 2
\* Number of builder / to() calls explored on top of the initial Pipelines.
MaxCalls == 2

VARIABLES pipes,    \* every Pipeline value built so far (immutable values)
          chains,   \* the chains wired by to(): processor state and sink
          fed,      \* the events added to the unbounded source so far
          last      \* the last call made, and what it returned

vars == <<pipes, chains, fed, last>>

----------------------------------------------------------------------------
\* Numbers: field values are exact fractions, so that avg is not rounded.

RECURSIVE GCD(_, _)
GCD(a, b) == IF b = 0 THEN a ELSE GCD(b, a % b)

Abs(n) == IF n < 0 THEN -n ELSE n

Frac(n, d) ==
    LET g == GCD(Abs(n), d) IN
    IF g = 0 THEN [num |-> 0, den |-> 1] ELSE [num |-> n \div g, den |-> d \div g]

Num(n) == [num |-> n, den |-> 1]

FracAdd(x, y) == Frac(x.num * y.den + y.num * x.den, x.den * y.den)

----------------------------------------------------------------------------
\* Events: Event (a timestamp), TimeRangeEvent (begin, end), IndexedEvent
\* (an Index "<dur>-<bucket>", kept as dur and the range it stands for).

Event(t, type, in) ==
    [kind |-> "event", b |-> t, e |-> t, dur |-> 0, type |-> type, in |-> Num(in)]

TimeRangeEvent(b, e, type, in) ==
    [kind |-> "timerange", b |-> b, e |-> e, dur |-> 0, type |-> type, in |-> Num(in)]

\* Index.getIndexString(duration, timestamp): the bucket holding the timestamp.
IndexBucket(dur, t) == t \div dur

IndexedEventAt(dur, bucket, type, in) ==
    [kind |-> "indexed", b |-> bucket * dur, e |-> (bucket + 1) * dur,
     dur |-> dur, type |-> type, in |-> in]

\* event.timestamp(): the begin time for events that carry a range.
Timestamp(ev) == ev.b

NoEvent == [kind |-> "none", b |-> 0, e |-> 0, dur |-> 0, type |-> "-", in |-> Num(0)]

----------------------------------------------------------------------------
\* Processors.  Every processor record has the same fields; the ones a kind
\* does not use hold a default.

Processor(kind, by, dur, align, group, emit) ==
    [kind |-> kind, by |-> by, dur |-> dur, align |-> align,
     group |-> group, emit |-> emit]

Offset(by)                == Processor("offsetBy", by, 0, "-", "-", "-")
Aggregator(dur, grp, emt) == Processor("aggregate", 0, dur, "-", grp, emt)
EventConverter(align)     == Processor("asEvents", 0, 0, align, "-", "-")
TimeRangeConverter(dur, align) == Processor("asTimeRangeEvents", 0, dur, align, "-", "-")
IndexedConverter(dur)     == Processor("asIndexedEvents", 0, dur, "-", "-", "-")

\* offsetBy(by, "in"): a new event whose "in" is offset; nothing else changes.
OffsetEvent(ev, by) == [ev EXCEPT !.in = FracAdd(@, Num(by))]

\* Mutant: the alignment is not looked at, the event is put at the begin.
ConvertToEventAtBegin(ev, align) ==
    IF ev.kind = "event" THEN ev
    ELSE [ev EXCEPT !.kind = "event", !.e = ev.b, !.dur = 0]

\* asEvents({alignment}): the range's begin (lag), midpoint (center) or end (lead).
ConvertToEvent(ev, align) ==
    LET t == CASE align = "lag"  -> ev.b
               [] align = "lead" -> ev.e
               [] OTHER          -> ev.b + ((ev.e - ev.b) \div 2)
    IN  IF ev.kind = "event" THEN ev
        ELSE [ev EXCEPT !.kind = "event", !.b = t, !.e = t, !.dur = 0]

\* asTimeRangeEvents({duration, alignment}): where the range sits around the
\* timestamp; an IndexedEvent gives the range of its Index.
ConvertToTimeRangeEvent(ev, dur, align) ==
    LET b == CASE align = "front"  -> ev.b
               [] align = "behind" -> ev.b - dur
               [] OTHER            -> ev.b - (dur \div 2)
    IN  CASE ev.kind = "timerange" -> ev
          [] ev.kind = "indexed"   -> [ev EXCEPT !.kind = "timerange", !.dur = 0]
          [] OTHER -> [ev EXCEPT !.kind = "timerange", !.b = b, !.e = b + dur]

\* asIndexedEvents({duration}): no Index stands for an arbitrary range.
CanConvertToIndexedEvent(ev) == ev.kind # "timerange"

ConvertToIndexedEvent(ev, dur) ==
    IF ev.kind = "indexed" THEN ev
    ELSE IndexedEventAt(dur, IndexBucket(dur, ev.b), ev.type, ev.in)

----------------------------------------------------------------------------
\* Aggregation functions over the events of a collection.

RECURSIVE SumIn(_)
SumIn(evs) == IF evs = <<>> THEN Num(0) ELSE FracAdd(Head(evs).in, SumIn(Tail(evs)))

\* Mutant: avg keeps the whole part of the quotient.
AvgTruncated(evs) == LET s == SumIn(evs) IN Num((s.num \div s.den) \div Len(evs))

\* avg: the sum of the values over their number.
Avg(evs) == LET s == SumIn(evs) IN Frac(s.num, s.den * Len(evs))

\* keep: the value of the field in the last event of the collection.
Keep(evs) == evs[Len(evs)].type

----------------------------------------------------------------------------
\* The windowing and grouping state of one aggregator: a sequence of
\* accumulation entries [g, w, evs] in the order they were created, at most
\* one per (group, window) key.

GroupKey(grp, ev) == IF grp = "type" THEN ev.type ELSE "*"

WindowKey(dur, ev) == IndexBucket(dur, Timestamp(ev))

EntryAt(acc, g, w) == {i \in 1..Len(acc) : acc[i].g = g /\ acc[i].w = w}

HasEntry(acc, g, w) == EntryAt(acc, g, w) # {}

\* Look up or create the entry of the event's key, and append the event.
Accumulate(acc, g, w, ev) ==
    IF HasEntry(acc, g, w)
    THEN [i \in 1..Len(acc) |->
            IF acc[i].g = g /\ acc[i].w = w
            THEN [acc[i] EXCEPT !.evs = Append(@, ev)] ELSE acc[i]]
    ELSE Append(acc, [g |-> g, w |-> w, evs |-> <<ev>>])

\* Mutant: an entry that has emitted stays in the mapping.
RemoveEntryNever(acc, g, w) == acc

\* The entry with key (g, w) removed from the mapping.
RemoveEntry(acc, g, w) == SelectSeq(acc, LAMBDA x : ~(x.g = g /\ x.w = w))

\* Mutant: the window that arrived last supersedes every other window of
\* its group, whatever their begin times.
IsSupersededByArrival(entry, g, w, dur) == entry.g = g /\ entry.w # w

\* An entry is superseded by an event of its own group in a later window;
\* windows are ordered by their begin time.
IsSuperseded(entry, g, w, dur) == entry.g = g /\ entry.w * dur < w * dur

\* The superseded entries, ordered by window key.
RECURSIVE SortByWindow(_)
SortByWindow(entries) ==
    IF entries = <<>> THEN <<>>
    ELSE LET m == CHOOSE i \in 1..Len(entries) :
                    \A j \in 1..Len(entries) :
                        entries[i].w < entries[j].w \/ (entries[i].w = entries[j].w /\ i <= j)
         IN  <<entries[m]>> \o
             SortByWindow([k \in 1..(Len(entries) - 1) |->
                              IF k < m THEN entries[k] ELSE entries[k + 1]])

Discards(acc, g, w, dur) ==
    SortByWindow(SelectSeq(acc, LAMBDA x : IsSuperseded(x, g, w, dur)))

\* The entries left once the superseded ones are gone.
Maintained(acc, g, w, dur) == SelectSeq(acc, LAMBDA x : ~IsSuperseded(x, g, w, dur))

\* Mutant: on "eachEvent" only the collection of the event's own key emits.
EmitListOwnKey(acc, emt, g, w, dur) ==
    IF emt = "eachEvent" THEN SelectSeq(acc, LAMBDA x : x.g = g /\ x.w = w)
    ELSE Discards(acc, g, w, dur)

\* Mutant: on "discard" the older windows of every group are discarded.
EmitListAnyGroup(acc, emt, g, w, dur) ==
    IF emt = "eachEvent" THEN Maintained(acc, g, w, dur)
    ELSE SortByWindow(SelectSeq(acc, LAMBDA x : x.w < w))

\* Mutant: on "eachEvent" only the collections of the event's window emit.
EmitListOwnWindow(acc, emt, g, w, dur) ==
    IF emt = "eachEvent" THEN SelectSeq(acc, LAMBDA x : x.w = w)
    ELSE Discards(acc, g, w, dur)

\* The collections that emit when an event of key (g, w) has been added to
\* acc: on "eachEvent" every collection currently maintained, on "discard"
\* the collections about to be discarded.
EmitList(acc, emt, g, w, dur) ==
    IF emt = "eachEvent" THEN Maintained(acc, g, w, dur) ELSE Discards(acc, g, w, dur)

\* Mutant: on "eachEvent" the rolled-over entries are kept.
AfterAccumulateKeepAll(acc, emt, g, w, dur) == acc

\* The aggregator's state once every collection of the emit list has emitted:
\* on "eachEvent" the rolled-over entries are dropped (they emit nothing), on
\* "discard" each entry was dropped as it emitted.
AfterAccumulate(acc, emt, g, w, dur) ==
    IF emt = "eachEvent" THEN Maintained(acc, g, w, dur) ELSE acc

\* aggregate({type: keep, in: avg}): one IndexedEvent for the entry's window.
AggregateEntry(entry, dur) ==
    IndexedEventAt(dur, entry.w, Keep(entry.evs), Avg(entry.evs))

----------------------------------------------------------------------------
\* Driving one event down the chain.  A run is [st, out, err, n]: the state
\* of every processor (the accumulation of an aggregator, <<>> for the
\* others), the events that reached the sink, the failure that aborted it and
\* the number of source events handed to the chain.

NoError == "none"

Run(st, out) == [st |-> st, out |-> out, err |-> NoError, n |-> 0]

RECURSIVE Push(_, _, _, _), EmitEach(_, _, _, _)

\* Mutant: on "discard" the entry is removed whether or not its event got
\* down the chain.
EmitEachDiscardFirst(procs, i, list, r) ==
    IF list = <<>> \/ r.err # NoError THEN r
    ELSE LET x  == Head(list)
             r1 == Push(procs, i + 1, AggregateEntry(x, procs[i].dur), r)
             r2 == IF procs[i].emit = "discard"
                   THEN [r1 EXCEPT !.st[i] = RemoveEntry(@, x.g, x.w)]
                   ELSE r1
         IN  EmitEach(procs, i, Tail(list), r2)

\* Each collection of the list is aggregated and its event is driven down the
\* rest of the chain; on "discard" its entry is removed once it has emitted.
EmitEach(procs, i, list, r) ==
    IF list = <<>> \/ r.err # NoError THEN r
    ELSE LET x  == Head(list)
             r1 == Push(procs, i + 1, AggregateEntry(x, procs[i].dur), r)
             r2 == IF r1.err = NoError /\ procs[i].emit = "discard"
                   THEN [r1 EXCEPT !.st[i] = RemoveEntry(@, x.g, x.w)]
                   ELSE r1
         IN  EmitEach(procs, i, Tail(list), r2)

\* Processor i consumes ev; what it yields is driven on to processor i + 1,
\* and past the last processor to the sink.
Push(procs, i, ev, r) ==
    IF r.err # NoError THEN r
    ELSE IF i > Len(procs) THEN [r EXCEPT !.out = Append(@, ev)]
    ELSE LET p == procs[i] IN
         CASE p.kind = "offsetBy" -> Push(procs, i + 1, OffsetEvent(ev, p.by), r)
           [] p.kind = "asEvents" -> Push(procs, i + 1, ConvertToEvent(ev, p.align), r)
           [] p.kind = "asTimeRangeEvents" ->
                Push(procs, i + 1, ConvertToTimeRangeEvent(ev, p.dur, p.align), r)
           [] p.kind = "asIndexedEvents" ->
                IF CanConvertToIndexedEvent(ev)
                THEN Push(procs, i + 1, ConvertToIndexedEvent(ev, p.dur), r)
                ELSE [r EXCEPT !.err = "UnsupportedConversion"]
           [] OTHER ->
                LET g    == GroupKey(p.group, ev)
                    w    == WindowKey(p.dur, ev)
                    acc1 == Accumulate(r.st[i], g, w, ev)
                    r1   == EmitEach(procs, i, EmitList(acc1, p.emit, g, w, p.dur),
                                     [r EXCEPT !.st[i] = acc1])
                IN  IF r1.err = NoError
                    THEN [r1 EXCEPT !.st[i] = AfterAccumulate(@, p.emit, g, w, p.dur)]
                    ELSE r1

\* One more source event has been handed to the chain.
Handed(r) == [r EXCEPT !.n = @ + 1]

FreshState(procs) == [i \in 1..Len(procs) |-> <<>>]

\* Mutant: close() drops what the aggregators hold without emitting it.
FlushNothing(procs, i, r) == [r EXCEPT !.st = FreshState(procs)]

\* close(): every aggregator of the chain, in chain order, emits what it
\* still holds on "discard", and its accumulation is dropped.
RECURSIVE Flush(_, _, _)
Flush(procs, i, r) ==
    IF i > Len(procs) \/ r.err # NoError THEN r
    ELSE IF procs[i].kind # "aggregate" THEN Flush(procs, i + 1, r)
    ELSE LET list == IF procs[i].emit = "discard" THEN r.st[i] ELSE <<>>
             r1   == EmitEach(procs, i, list, r)
         IN  Flush(procs, i + 1,
                   IF r1.err = NoError THEN [r1 EXCEPT !.st[i] = <<>>] ELSE r1)

\* Mutant: once the source is exhausted the pending windows are flushed.
RECURSIVE DrainAndFlush(_, _, _)
DrainAndFlush(procs, evs, r) ==
    IF r.err # NoError THEN r
    ELSE IF evs = <<>> THEN Flush(procs, 1, r)
    ELSE DrainAndFlush(procs, Tail(evs), Handed(Push(procs, 1, Head(evs), r)))

\* A bounded source is iterated in order; a failure ends the iteration.
RECURSIVE Drain(_, _, _)
Drain(procs, evs, r) ==
    IF evs = <<>> \/ r.err # NoError THEN r
    ELSE Drain(procs, Tail(evs), Handed(Push(procs, 1, Head(evs), r)))

----------------------------------------------------------------------------
\* The Pipeline value and its builder methods.  Each method is a function
\* from the Pipeline it is called on to the Pipeline it returns.

Pipeline ==
    [src |-> "none", procs |-> <<>>, window |-> 0, group |-> "none",
     emit |-> "eachEvent", sink |-> "none", cont |-> FALSE]

\* Mutant: the continuation starts with an empty chain.
ContinuedFromScratch(p) ==
    IF p.sink = "none" THEN p
    ELSE [p EXCEPT !.sink = "none", !.cont = TRUE, !.procs = <<>>]

\* A method called on a Pipeline that to() has terminated starts a
\* continuation of its chain, which has no sink yet.
Continued(p) == IF p.sink = "none" THEN p ELSE [p EXCEPT !.sink = "none", !.cont = TRUE]

\* Mutant: only a Pipeline already marked as a continuation is refused, so
\* from() called on the terminated Pipeline itself goes through.
FromErrorContOnly(p, src) ==
    IF p.cont /\ p.src # "none" THEN "UnsupportedMerge" ELSE NoError

\* from(src): a continuation keeps the source of the chain it continues.
FromError(p, src) ==
    IF Continued(p).cont /\ p.src # "none" THEN "UnsupportedMerge" ELSE NoError

From(p, src) == [Continued(p) EXCEPT !.src = src]

WindowBy(p, dur) == [Continued(p) EXCEPT !.window = dur]

GroupBy(p, k) == [Continued(p) EXCEPT !.group = k]

EmitOn(p, trigger) == [Continued(p) EXCEPT !.emit = trigger]

\* Mutant: the new processor is put at the head of the chain.
AddProcessorFirst(p, proc) == [Continued(p) EXCEPT !.procs = <<proc>> \o @]

\* The processor is appended to the chain.
AddProcessor(p, proc) == [Continued(p) EXCEPT !.procs = Append(@, proc)]

OffsetBy(p, by) == AddProcessor(p, Offset(by))

\* Mutant: aggregate() does not look at the window state.
AggregateUnchecked(p) == NoError

\* aggregate(fields): there must be a window defined for a Pipeline to aggregate.
AggregateError(p) == IF p.window = 0 THEN "AggregateWithoutWindow" ELSE NoError

Aggregate(p) == AddProcessor(p, Aggregator(p.window, p.group, p.emit))

AsEvents(p, align) == AddProcessor(p, EventConverter(align))

AsTimeRangeEvents(p, dur, align) == AddProcessor(p, TimeRangeConverter(dur, align))

AsIndexedEvents(p, dur) == AddProcessor(p, IndexedConverter(dur))

To(p, sink) == [p EXCEPT !.sink = sink]

\* Mutant: the method changes the Pipeline it is called on and returns it.
DeriveInPlace(ps, i, q) == Append([ps EXCEPT ![i] = q], q)

\* The Pipeline values after a method has returned q: the values built before
\* are kept as they are and q is a new one.
Derive(ps, i, q) == Append(ps, q)

----------------------------------------------------------------------------
\* Sources.  "collection" is a bounded In (a Collection, iterated by to()),
\* "input" is an UnboundedIn (events are added to it one by one).

Sources == {"collection", "input"}

Mode(src) == IF src = "input" THEN "stream" ELSE "batch"

\* The events of the bounded source, in timestamp order.
Collection == <<Event(0, "A", 2), Event(1, "A", 4), Event(2, "B", 10)>>

\* The events that may be added to the unbounded source, in any order.
StreamEvents ==
    {Event(0, "A", 2), Event(1, "A", 4), Event(1, "A", 6), Event(0, "B", 4),
     Event(2, "A", 10), Event(3, "B", 10), TimeRangeEvent(0, 1, "A", 2)}

----------------------------------------------------------------------------
\* Chains.  to() wires the processors of a Pipeline between its source and a
\* new sink; the chain owns the state of its processors and its sink.  seen
\* counts the source events the chain has been handed, from is the number of
\* events the unbounded source had been given when the chain was connected.

Chain(pid, st, out, attached, seen, from) ==
    [pid |-> pid, st |-> st, out |-> out, attached |-> attached,
     seen |-> seen, from |-> from]

\* Mutant: to() connects the output and iterates over nothing.
StartWithoutDrain(p) == Run(FreshState(p.procs), <<>>)

\* Mutant: in stream mode to() replays the events the input was given before.
StartReplaying(p) ==
    IF Mode(p.src) = "batch"
    THEN Drain(p.procs, Collection, Run(FreshState(p.procs), <<>>))
    ELSE Drain(p.procs, fed, Run(FreshState(p.procs), <<>>))

\* Batch mode: the output is connected and the source is iterated over, every
\* event going down to the out.  Stream mode: the output is connected, and
\* from then on the events added to the input are processed.
Start(p) ==
    IF Mode(p.src) = "batch"
    THEN Drain(p.procs, Collection, Run(FreshState(p.procs), <<>>))
    ELSE Run(FreshState(p.procs), <<>>)

Connect(p, pid, nfed) ==
    LET r == Start(p) IN Chain(pid, r.st, r.out, Mode(p.src) = "stream", r.n, nfed)

\* Mutant: the sink starts a new collection for every event.
DeliverToNewCollection(ps, c, ev) ==
    Handed(Push(ps[c.pid].procs, 1, ev, Run(c.st, <<>>)))

\* Mutant: the chains subscribed to the source work on the accumulation of
\* the first of them.
DeliverOnSharedState(ps, c, ev) ==
    Handed(Push(ps[c.pid].procs, 1, ev, Run(chains[1].st, c.out)))

\* What one chain does with an event added to the source it is attached to.
Deliver(ps, c, ev) == Handed(Push(ps[c.pid].procs, 1, ev, Run(c.st, c.out)))

\* Mutant: what the event yields is put in front of what the sink holds.
DeliveredInFront(ps, c, ev) ==
    LET r == Handed(Push(ps[c.pid].procs, 1, ev, Run(c.st, <<>>)))
    IN  [c EXCEPT !.st = r.st, !.out = r.out \o @, !.seen = @ + r.n]

Delivered(ps, c, ev) ==
    LET r == Deliver(ps, c, ev)
    IN  [c EXCEPT !.st = r.st, !.out = r.out, !.seen = @ + r.n]

\* The failure a call surfaces: the first one among the chains it drove.
RECURSIVE FirstError(_)
FirstError(errs) ==
    IF errs = <<>> THEN NoError
    ELSE IF Head(errs) # NoError THEN Head(errs) ELSE FirstError(Tail(errs))

\* The last call: the method, the Pipeline or chain it was made on, its
\* event, the failure it surfaced, and the state it was made in.
Call(op, on, ev, err, pre) ==
    [op |-> op, on |-> on, ev |-> ev, err |-> err, pre |-> pre]

Pre == [pipes |-> pipes, chains |-> chains]

\* source.addEvent(ev): every chain attached to the source is driven with ev.
Emit(ev) ==
    /\ chains' = [k \in 1..Len(chains) |->
                    IF chains[k].attached THEN Delivered(pipes, chains[k], ev)
                    ELSE chains[k]]
    /\ fed' = Append(fed, ev)
    /\ last' = Call("addEvent", 0, ev,
                    FirstError([k \in 1..Len(chains) |->
                                   IF chains[k].attached
                                   THEN Deliver(pipes, chains[k], ev).err ELSE NoError]),
                    Pre)
    /\ UNCHANGED pipes

AddEvent(ev) ==
    /\ Len(fed) < MaxEvents
    /\ Emit(ev)

\* close(): the pending accumulations are flushed to the sink, then the chain
\* is torn down.
Close(k) ==
    /\ chains[k].attached
    /\ LET c == chains[k]
           r == Flush(pipes[c.pid].procs, 1, Run(c.st, c.out))
       IN  /\ chains' = [chains EXCEPT ![k] = [c EXCEPT !.st = r.st, !.out = r.out,
                                                        !.attached = FALSE]]
           /\ last' = Call("close", k, NoEvent, r.err, Pre)
    /\ UNCHANGED <<pipes, fed>>

\* The sink is detached (or the Pipeline dropped) without close(): nothing is
\* flushed and what was accumulated is lost.
Detach(k) ==
    /\ chains[k].attached
    /\ chains' = [chains EXCEPT ![k] = [@ EXCEPT !.st = FreshState(@),
                                                 !.attached = FALSE]]
    /\ last' = Call("detach", k, NoEvent, NoError, Pre)
    /\ UNCHANGED <<pipes, fed>>

----------------------------------------------------------------------------
\* Stream specification: one Pipeline on the unbounded source, built by the
\* builder methods and terminated by to(); then events are added.

Windowed(grp, emt) ==
    EmitOn(WindowBy(GroupBy(From(Pipeline, "input"), grp), OneHour), emt)

StreamPipelines ==
    UNION {{ Aggregate(Windowed(grp, emt)),
             Aggregate(AsIndexedEvents(Windowed(grp, emt), OneHour)),
             AsIndexedEvents(AsTimeRangeEvents(Aggregate(Windowed(grp, emt)),
                                               OneHour, "front"), OneHour)
           } : grp \in {"none", "type"}, emt \in {"eachEvent", "discard"}}

NoCall == Call("none", 0, NoEvent, NoError, [pipes |-> <<>>, chains |-> <<>>])

Init ==
    /\ \E p \in StreamPipelines :
          /\ pipes = <<To(p, "EventOut")>>
          /\ chains = <<Connect(pipes[1], 1, 0)>>
    /\ fed = <<>>
    /\ last = NoCall

Next ==
    \/ \E ev \in StreamEvents : AddEvent(ev)
    \/ \E k \in 1..Len(chains) : Close(k)
    \/ \E k \in 1..Len(chains) : Detach(k)

Spec == Init /\ [][Next]_vars

----------------------------------------------------------------------------
\* Builder specification: builder methods and to() are called on the Pipeline
\* values built so far, and events are added to the unbounded source.

\* Number of addEvent calls explored between the builder calls.
MaxFeeds == 1

FeedEvents == {Event(0, "A", 2), Event(2, "B", 10)}

\* A builder method called on pipes[i] returned q, or failed with err.
Returned(op, i, q, err) ==
    /\ Len(pipes) <= MaxCalls
    /\ pipes' = IF err = NoError THEN Derive(pipes, i, q) ELSE pipes
    /\ last' = Call(op, i, NoEvent, err, Pre)
    /\ UNCHANGED <<chains, fed>>

CallFrom(i, src) == Returned("from", i, From(pipes[i], src), FromError(pipes[i], src))

CallGroupBy(i, k) == Returned("groupBy", i, GroupBy(pipes[i], k), NoError)

CallWindowBy(i, dur) == Returned("windowBy", i, WindowBy(pipes[i], dur), NoError)

CallEmitOn(i, trigger) == Returned("emitOn", i, EmitOn(pipes[i], trigger), NoError)

CallOffsetBy(i, by) == Returned("offsetBy", i, OffsetBy(pipes[i], by), NoError)

CallAggregate(i) ==
    Returned("aggregate", i, Aggregate(pipes[i]), AggregateError(pipes[i]))

CallAsEvents(i, align) == Returned("asEvents", i, AsEvents(pipes[i], align), NoError)

CallAsTimeRangeEvents(i, dur, align) ==
    Returned("asTimeRangeEvents", i, AsTimeRangeEvents(pipes[i], dur, align), NoError)

CallAsIndexedEvents(i, dur) ==
    Returned("asIndexedEvents", i, AsIndexedEvents(pipes[i], dur), NoError)

\* to(sink): the new Pipeline is wired to its source; a bounded source is
\* drained before to() returns.
Terminate(i, sink) ==
    /\ pipes[i].src # "none"
    /\ LET q == To(pipes[i], sink)
       IN  /\ pipes' = Derive(pipes, i, q)
           /\ chains' = Append(chains, Connect(q, Len(pipes) + 1, Len(fed)))
           /\ last' = Call("to", i, NoEvent, Start(q).err, Pre)
    /\ UNCHANGED fed

CallTo(i, sink) ==
    /\ Len(pipes) <= MaxCalls
    /\ Terminate(i, sink)

Feed(ev) ==
    /\ Len(fed) < MaxFeeds
    /\ Emit(ev)

\* The Pipelines the calls start from: the empty Pipeline, the examples of
\* the Pipeline documentation, a converting and a windowed Pipeline without
\* a sink.
BuildStarts ==
    { Pipeline,
      From(Pipeline, "collection"),
      To(OffsetBy(OffsetBy(From(Pipeline, "collection"), 1), 2), "Collector"),
      To(OffsetBy(From(Pipeline, "input"), 3), "Collector"),
      AsTimeRangeEvents(From(Pipeline, "collection"), OneHour, "front"),
      Windowed("type", "discard") }

InitBuild ==
    /\ \E p \in BuildStarts :
          /\ pipes = <<p>>
          /\ chains = IF p.sink = "none" THEN <<>> ELSE <<Connect(p, 1, 0)>>
    /\ fed = <<>>
    /\ last = NoCall

NextBuild ==
    \/ \E i \in 1..Len(pipes), src \in Sources : CallFrom(i, src)
    \/ \E i \in 1..Len(pipes) : CallGroupBy(i, "type")
    \/ \E i \in 1..Len(pipes) : CallWindowBy(i, OneHour)
    \/ \E i \in 1..Len(pipes) : CallEmitOn(i, "discard")
    \/ \E i \in 1..Len(pipes) : CallOffsetBy(i, 3)
    \/ \E i \in 1..Len(pipes) : CallAggregate(i)
    \/ \E i \in 1..Len(pipes) : CallAsEvents(i, "center")
    \/ \E i \in 1..Len(pipes) : CallAsTimeRangeEvents(i, OneHour, "front")
    \/ \E i \in 1..Len(pipes) : CallAsIndexedEvents(i, OneHour)
    \/ \E i \in 1..Len(pipes), sink \in {"Collector", "EventOut"} : CallTo(i, sink)
    \/ \E ev \in FeedEvents : Feed(ev)

SpecBuild == InitBuild /\ [][NextBuild]_vars

----------------------------------------------------------------------------
\* Chain specification: a Pipeline of offsetting and converting processors,
\* or of one aggregator, on either source, terminated by to(); then events of
\* every variant are added to the unbounded source.

ChainPipelines ==
    UNION {{ OffsetBy(OffsetBy(From(Pipeline, src), 1), 2),
             OffsetBy(From(Pipeline, src), 3),
             AsEvents(From(Pipeline, src), "lag"),
             AsEvents(From(Pipeline, src), "center"),
             AsEvents(From(Pipeline, src), "lead"),
             AsEvents(AsTimeRangeEvents(From(Pipeline, src), OneHour, "front"), "lead"),
             AsEvents(AsIndexedEvents(From(Pipeline, src), OneHour), "center"),
             Aggregate(EmitOn(WindowBy(GroupBy(From(Pipeline, src), "type"), OneHour),
                              "eachEvent")),
             Aggregate(EmitOn(WindowBy(GroupBy(From(Pipeline, src), "type"), OneHour),
                              "discard"))
           } : src \in Sources}

\* The events that may be added to the unbounded source, in any order.
ChainEvents ==
    {Event(0, "A", 5), Event(1, "B", 2), Event(2, "A", 1),
     TimeRangeEvent(0, 2, "A", 4), IndexedEventAt(OneHour, 1, "B", Num(6))}

InitChain ==
    /\ \E p \in ChainPipelines, sink \in {"Collector", "EventOut"} :
          /\ pipes = <<To(p, sink)>>
          /\ chains = <<Connect(pipes[1], 1, 0)>>
    /\ fed = <<>>
    /\ last = NoCall

NextChain ==
    \/ \E ev \in ChainEvents : AddEvent(ev)
    \/ \E k \in 1..Len(chains) : Close(k)

SpecChain == InitChain /\ [][NextChain]_vars

----------------------------------------------------------------------------
\* Subscriber specification: a grouped and windowed Pipeline on the unbounded
\* source is the prefix of two aggregating Pipelines, one per emission policy;
\* each is terminated by to(), which subscribes a chain of its own to the
\* source, while events are being added.

SubscriberPrefix(grp) == WindowBy(GroupBy(From(Pipeline, "input"), grp), OneHour)

\* The events that may be added to the unbounded source, in any order.
SubscriberEvents == {Event(0, "A", 2), Event(1, "B", 4), Event(2, "A", 10)}

\* Number of addEvent calls explored around the to() calls.
MaxAdded == 3

Add(ev) ==
    /\ Len(fed) < MaxAdded
    /\ Emit(ev)

\* to() is called once on each of the aggregating Pipelines.
Subscribe(i) ==
    /\ pipes[i].procs # <<>> /\ pipes[i].sink = "none"
    /\ \A j \in 1..Len(pipes) : pipes[j] # To(pipes[i], "EventOut")
    /\ Terminate(i, "EventOut")

InitSubscribers ==
    /\ \E grp \in {"none", "type"} :
          pipes = <<SubscriberPrefix(grp),
                    Aggregate(EmitOn(SubscriberPrefix(grp), "eachEvent")),
                    Aggregate(EmitOn(SubscriberPrefix(grp), "discard"))>>
    /\ chains = <<>>
    /\ fed = <<>>
    /\ last = NoCall

NextSubscribers ==
    \/ \E i \in 1..Len(pipes) : Subscribe(i)
    \/ \E ev \in SubscriberEvents : Add(ev)
    \/ \E k \in 1..Len(chains) : Close(k)
    \/ \E k \in 1..Len(chains) : Detach(k)

SpecSubscribers == InitSubscribers /\ [][NextSubscribers]_vars

----------------------------------------------------------------------------
\* The Event API: Event.merge, Event.sum and the Index of an IndexedEvent.
\* Here the data of an event is a mapping from field names to numbers.

\* The time key of an event: the timestamp of an Event, the Index of an
\* IndexedEvent, the timerange of a TimeRangeEvent.
TimeKey(ev) == [kind |-> ev.kind, b |-> ev.b, e |-> ev.e, dur |-> ev.dur]

WithData(key, data) ==
    [kind |-> key.kind, b |-> key.b, e |-> key.e, dur |-> key.dur, data |-> data]

NoData == [k \in {} |-> 0]

SameTimeKey(events) ==
    \A i \in 1..Len(events) : TimeKey(events[i]) = TimeKey(events[1])

Front(seq) == SubSeq(seq, 1, Len(seq) - 1)

\* Mutant: a field already merged is not overwritten.
MergeIntoKeepFirst(data, d) == data @@ d

\* The fields of d are set on data, over the fields data has already.
MergeInto(data, d) == d @@ data

RECURSIVE MergeData(_)
MergeData(events) ==
    IF events = <<>> THEN NoData
    ELSE MergeInto(MergeData(Front(events)), events[Len(events)].data)

MergeError(events) == IF SameTimeKey(events) THEN NoError ELSE "IncompatibleMerge"

\* Event.merge(events): one event of the same variant and time key.
Merge(events) == WithData(TimeKey(events[1]), MergeData(events))

\* Mutant: the value of a field is assigned to the sum instead of added.
AddDataAssign(sum, d) ==
    [k \in DOMAIN sum \cup DOMAIN d |-> IF k \in DOMAIN d THEN d[k] ELSE sum[k]]

\* Every field of d is added to the sum, which starts at 0 for a new field.
AddData(sum, d) ==
    [k \in DOMAIN sum \cup DOMAIN d |->
        (IF k \in DOMAIN sum THEN sum[k] ELSE 0) + (IF k \in DOMAIN d THEN d[k] ELSE 0)]

RECURSIVE SumData(_)
SumData(events) ==
    IF events = <<>> THEN NoData
    ELSE AddData(SumData(Front(events)), events[Len(events)].data)

SumError(events) ==
    IF SameTimeKey(events) THEN NoError
    ELSE "sum() expects all events to have the same timestamp"

\* Event.sum(events): one event at the common time key.
Sum(events) == WithData(TimeKey(events[1]), SumData(events))

\* Index strings are sequences of characters; times of an Index are in
\* seconds since the epoch.
Digits == <<"0", "1", "2", "3", "4", "5", "6", "7", "8", "9">>

IsDigit(c) == \E n \in 1..10 : Digits[n] = c

DigitOf(c) == (CHOOSE n \in 1..10 : Digits[n] = c) - 1

Units == {"s", "m", "h", "d"}

UnitSeconds(u) ==
    CASE u = "s" -> 1 [] u = "m" -> 60 [] u = "h" -> 3600 [] OTHER -> 86400

\* The decimal digits of n.
RECURSIVE ToDigits(_)
ToDigits(n) ==
    IF n < 10 THEN <<Digits[n + 1]>>
    ELSE Append(ToDigits(n \div 10), Digits[(n % 10) + 1])

RECURSIVE ParseInt(_)
ParseInt(str) ==
    IF str = <<>> THEN 0
    ELSE ParseInt(Front(str)) * 10 + DigitOf(str[Len(str)])

AllDigits(str) == str # <<>> /\ \A i \in 1..Len(str) : IsDigit(str[i])

\* Split on "-": the positions of the dashes of the string.
Dashes(str) == {i \in 1..Len(str) : str[i] = "-"}

\* A well-formed index string: a duration \d+[smhd], a dash, a bucket \d+.
WellFormed(str) ==
    /\ Cardinality(Dashes(str)) = 1
    /\ LET d == CHOOSE i \in Dashes(str) : TRUE
       IN  /\ d >= 3
           /\ AllDigits(SubSeq(str, 1, d - 2))
           /\ str[d - 1] \in Units
           /\ AllDigits(SubSeq(str, d + 1, Len(str)))

IndexError(str) == IF WellFormed(str) THEN NoError ELSE "ParseError"

NoIndex == [count |-> 0, unit |-> "-", bucket |-> 0, b |-> 0, e |-> 0]

\* Mutant: the range of the Index begins at the bucket number, not scaled by
\* the duration.
IndexAtUnscaled(count, unit, bucket) ==
    [count |-> count, unit |-> unit, bucket |-> bucket,
     b |-> bucket, e |-> bucket + count * UnitSeconds(unit)]

\* The Index of a duration and a bucket, with the range it stands for:
\* [bucket * duration, (bucket + 1) * duration).
IndexAt(count, unit, bucket) ==
    LET dur == count * UnitSeconds(unit)
    IN  [count |-> count, unit |-> unit, bucket |-> bucket,
         b |-> bucket * dur, e |-> (bucket + 1) * dur]

\* new Index(str)
ParseIndex(str) ==
    IF ~WellFormed(str) THEN NoIndex
    ELSE LET d == CHOOSE i \in Dashes(str) : TRUE
         IN  IndexAt(ParseInt(SubSeq(str, 1, d - 2)), str[d - 1],
                     ParseInt(SubSeq(str, d + 1, Len(str))))

\* The string of an Index.
SerializeIndex(idx) ==
    ToDigits(idx.count) \o <<idx.unit, "-">> \o ToDigits(idx.bucket)

\* The UTC calendar date of a time in seconds (proleptic Gregorian calendar).
UTCDate(t) ==
    LET days == t \div 86400
        z    == days + 719468
        era  == z \div 146097
        doe  == z - era * 146097
        yoe  == (doe - doe \div 1460 + doe \div 36524 - doe \div 146096) \div 365
        doy  == doe - (365 * yoe + yoe \div 4 - yoe \div 100)
        mp   == (5 * doy + 2) \div 153
        m    == IF mp < 10 THEN mp + 3 ELSE mp - 9
    IN  [weekday |-> (days + 4) % 7,
         day   |-> doy - (153 * mp + 2) \div 5 + 1,
         month |-> m,
         year  |-> yoe + era * 400 + (IF m <= 2 THEN 1 ELSE 0),
         secs  |-> t % 86400]

\* Event.map(events, fields): for every field, the values of the field in
\* the order of the events.
Map(events, fields) ==
    [k \in fields |-> [i \in 1..Len(events) |-> events[i].data[k]]]

\* A reducer applied to the values of one field: avg() of the numbers, or
\* the value kept from the collection.
Apply(reducer, values) ==
    IF reducer = "avg"
    THEN Avg([i \in 1..Len(values) |-> [in |-> Num(values[i])]])
    ELSE Keep([i \in 1..Len(values) |-> [type |-> values[i]]])

\* Event.reduce(mapped, reducer): every field reduced to one value.
Reduce(mapped, reducer) == [k \in DOMAIN mapped |-> Apply(reducer, mapped[k])]

\* Event.mapReduce(events, fields, reducer).
MapReduce(events, fields, reducer) == Reduce(Map(events, fields), reducer)

----------------------------------------------------------------------------
\* Event API specification: merge and sum are applied to lists of events of
\* one variant, Index values are made from strings, and fields of a list of
\* events are mapped and reduced.

\* Length of the lists of events merged or summed.
MaxInputs == 3

FieldNames == {"a", "b"}

\* Field a is absent, 2 or 5; field b is absent or 5.
DataMaps ==
    {d \in UNION {[S -> {2, 5}] : S \in SUBSET FieldNames} :
        "b" \in DOMAIN d => d["b"] = 5}

\* Two time keys of each variant.
ApiTimeKeys ==
    {TimeKey(Event(t, "-", 0)) : t \in {0, 1}}
    \cup {TimeKey(IndexedEventAt(OneHour, n, "-", Num(0))) : n \in {0, 1}}
    \cup {TimeKey(TimeRangeEvent(0, e, "-", 0)) : e \in {1, 2}}

ApiEvents == {WithData(key, data) : key \in ApiTimeKeys, data \in DataMaps}

\* Lists of events of one variant.
EventLists ==
    UNION {[1..n -> {ev \in ApiEvents : ev.kind = kind}]
              : n \in 1..MaxInputs, kind \in {"event", "indexed", "timerange"}}

\* The index strings tried: every duration and bucket below, the Index of
\* the IndexedEvent tests, and strings that are not well formed.
Counts == {1, 24, 60}

Buckets == 0..2

IndexStrings ==
    {SerializeIndex(IndexAt(c, u, n)) : c \in Counts, u \in Units, n \in Buckets}
    \cup {<<"1", "d", "-", "1", "2", "3", "5", "5">>,
          <<"1", "h">>, <<"h", "-", "1">>, <<"1", "w", "-", "1">>,
          <<"1", "h", "-">>, <<"1", "h", "-", "1", "-", "2">>, <<>>}

\* The events of the map and reduce tests: four events 30 seconds apart, in
\* one half hour of the model's time.
EVENT_LIST ==
    <<WithData(TimeKey(Event(803027, "-", 0)), [name |-> "source1", in |-> 2, out |-> 11]),
      WithData(TimeKey(Event(803027, "-", 0)), [name |-> "source1", in |-> 4, out |-> 13]),
      WithData(TimeKey(Event(803027, "-", 0)), [name |-> "source1", in |-> 6, out |-> 15]),
      WithData(TimeKey(Event(803027, "-", 0)), [name |-> "source1", in |-> 8, out |-> 18])>>

\* The lists mapped and reduced: the runs of consecutive events of the list.
MapReduceLists ==
    {SubSeq(EVENT_LIST, i, j) : i, j \in 1..Len(EVENT_LIST)} \ {<<>>}

Reducers == {"avg", "keep"}

\* The fields a reducer is applied to: avg to numbers, keep to any field.
FieldSpecs(reducer) ==
    (SUBSET (IF reducer = "avg" THEN {"in", "out"} ELSE {"name", "in", "out"})) \ {{}}

\* A call of the Event API: on holds its arguments and ev its result.  The
\* functions are pure, so one call is explored from the initial state.
CallMerge(events) ==
    /\ last = NoCall
    /\ last' = Call("merge", events,
                    IF MergeError(events) = NoError THEN Merge(events) ELSE NoEvent,
                    MergeError(events), Pre)
    /\ UNCHANGED <<pipes, chains, fed>>

CallSum(events) ==
    /\ last = NoCall
    /\ last' = Call("sum", events,
                    IF SumError(events) = NoError THEN Sum(events) ELSE NoEvent,
                    SumError(events), Pre)
    /\ UNCHANGED <<pipes, chains, fed>>

NewIndex(str) ==
    /\ last = NoCall
    /\ last' = Call("Index", str, ParseIndex(str), IndexError(str), Pre)
    /\ UNCHANGED <<pipes, chains, fed>>

CallMapReduce(events, fields, reducer) ==
    /\ last = NoCall
    /\ last' = Call("mapReduce", <<events, fields, reducer>>,
                    MapReduce(events, fields, reducer), NoError, Pre)
    /\ UNCHANGED <<pipes, chains, fed>>

InitEvents ==
    /\ pipes = <<>>
    /\ chains = <<>>
    /\ fed = <<>>
    /\ last = NoCall

NextEvents ==
    \/ (last = NoCall /\ \E events \in EventLists : CallMerge(events))
    \/ (last = NoCall /\ \E events \in EventLists : CallSum(events))
    \/ (last = NoCall /\ \E str \in IndexStrings : NewIndex(str))
    \/ (last = NoCall /\ \E events \in MapReduceLists, reducer \in Reducers :
            \E fields \in FieldSpecs(reducer) : CallMapReduce(events, fields, reducer))

SpecEvents == InitEvents /\ [][NextEvents]_vars

----------------------------------------------------------------------------
\* Vocabulary of the properties.

ChainIds == 1..Len(chains)

ProcsOf(k) == pipes[chains[k].pid].procs

\* The chain ends in its only aggregator.
EndsInAggregator(procs) ==
    /\ procs # <<>>
    /\ \A i \in 1..Len(procs) : (procs[i].kind = "aggregate") <=> (i = Len(procs))

AggregatorOf(k) == ProcsOf(k)[Len(ProcsOf(k))]

\* The accumulation of chain k's aggregator, now and before the last call.
AccOf(k)    == chains[k].st[Len(ProcsOf(k))]
AccBefore(k) == last.pre.chains[k].st[Len(ProcsOf(k))]

\* What the last call delivered to the sink of chain k.
NewOut(k) ==
    SubSeq(chains[k].out, Len(last.pre.chains[k].out) + 1, Len(chains[k].out))

\* The last call was an addEvent that chain k was attached for and that no
\* processor failed on.
Added(k) ==
    /\ last.op = "addEvent"
    /\ k \in 1..Len(last.pre.chains)
    /\ last.pre.chains[k].attached
    /\ last.err = NoError

EventsOf(acc, g, w) == IF HasEntry(acc, g, w) THEN acc[CHOOSE i \in EntryAt(acc, g, w) : TRUE].evs ELSE <<>>

InsOf(evs) == [j \in 1..Len(evs) |-> evs[j].in]

\* The three events of one hour with in = 2, 4, 6.
SameHour246 == <<Event(0, "A", 2), Event(1, "A", 4), Event(1, "A", 6)>>

\* C1 as stated: with emitOn("eachEvent") every event delivered to the
\* aggregator causes exactly one emission, the aggregate of everything
\* accumulated under the event's key, and the entry is kept.
C1_ExactlyOneEmission ==
    \A k \in ChainIds :
        (Added(k) /\ EndsInAggregator(ProcsOf(k)) /\ AggregatorOf(k).emit = "eachEvent")
        => LET p == AggregatorOf(k)
               g == GroupKey(p.group, last.ev)
               w == WindowKey(p.dur, last.ev)
           IN  /\ Len(NewOut(k)) = 1
               /\ NewOut(k)[1].in = Avg(EventsOf(AccOf(k), g, w))
               /\ HasEntry(AccOf(k), g, w)

\* C1 amended: with emitOn("eachEvent") every event delivered to the
\* aggregator causes, before addEvent returns, one emission per collection
\* then maintained (exactly one when the event's own entry is the only one),
\* in the order the entries were created; each is the IndexedEvent of its
\* window with the avg of everything accumulated under its key; the event's
\* own entry has grown by one event and is kept.  Events in = 2, 4, 6 of one
\* hour emit avg 2, 3, 4 in that order.
C1_EachEventEmitsEveryMaintained ==
    \A k \in ChainIds :
        (Added(k) /\ EndsInAggregator(ProcsOf(k)) /\ AggregatorOf(k).emit = "eachEvent")
        => LET p == AggregatorOf(k)
               g == GroupKey(p.group, last.ev)
               w == WindowKey(p.dur, last.ev)
           IN  /\ Len(NewOut(k)) = Len(AccOf(k))
               /\ \A j \in 1..Len(AccOf(k)) :
                     /\ NewOut(k)[j].kind = "indexed"
                     /\ NewOut(k)[j].dur = p.dur
                     /\ NewOut(k)[j].b = AccOf(k)[j].w * p.dur
                     /\ NewOut(k)[j].in = Avg(AccOf(k)[j].evs)
               /\ HasEntry(AccOf(k), g, w)
               /\ Len(EventsOf(AccOf(k), g, w)) = Len(EventsOf(AccBefore(k), g, w)) + 1
               /\ (Len(AccOf(k)) = 1 => Len(NewOut(k)) = 1)
               /\ (fed = SameHour246 /\ ProcsOf(k)[1].kind = "aggregate"
                     => InsOf(chains[k].out) = <<Num(2), Num(3), Num(4)>>)

\* The 2, 4, 6 scenario has run on an eachEvent chain, and an addEvent has
\* been made with two collections maintained.
C1_Witness246 ==
    /\ fed = SameHour246
    /\ Added(1) /\ AggregatorOf(1).emit = "eachEvent" /\ EndsInAggregator(ProcsOf(1))
    /\ Len(chains[1].out) = 3

C1_WitnessTwoMaintained ==
    /\ Added(1) /\ AggregatorOf(1).emit = "eachEvent" /\ EndsInAggregator(ProcsOf(1))
    /\ Len(NewOut(1)) = 2

\* The entries of acc that an event of key (g, w) supersedes.
Older(acc, g, w) == {i \in 1..Len(acc) : acc[i].g = g /\ acc[i].w < w}

\* Bucket N holds in = 2, 4 and bucket N + 1 holds in = 10.
TwoThenNext == <<Event(0, "A", 2), Event(1, "A", 4), Event(2, "A", 10)>>

\* C2: with emitOn("discard") an entry (g, w) emits nothing while it
\* accumulates; when a later event of group g arrives in a window after w the
\* entry is aggregated, emitted once and removed; the entry of the newer
\* window is live and has not emitted, and every other entry is untouched.
\* in = 2, 4 in bucket N then in = 10 in bucket N + 1 give one emission in
\* total, bucket N with avg 3.
C2_DiscardEmitsSupersededOnce ==
    \A k \in ChainIds :
        (Added(k) /\ EndsInAggregator(ProcsOf(k)) /\ AggregatorOf(k).emit = "discard")
        => LET p   == AggregatorOf(k)
               g   == GroupKey(p.group, last.ev)
               w   == WindowKey(p.dur, last.ev)
               old == Older(AccBefore(k), g, w)
           IN  /\ Len(NewOut(k)) = Cardinality(old)
               /\ \A j \in 1..Len(NewOut(k)) :
                     /\ NewOut(k)[j].b < w * p.dur
                     /\ \E i \in old :
                           /\ NewOut(k)[j].kind = "indexed"
                           /\ NewOut(k)[j].b = AccBefore(k)[i].w * p.dur
                           /\ NewOut(k)[j].in = Avg(AccBefore(k)[i].evs)
               /\ \A i \in old : ~HasEntry(AccOf(k), g, AccBefore(k)[i].w)
               /\ \A i \in (1..Len(AccBefore(k))) \ old :
                     LET x == AccBefore(k)[i]
                     IN  EventsOf(AccOf(k), x.g, x.w) =
                            IF x.g = g /\ x.w = w THEN Append(x.evs, EventsOf(AccOf(k), g, w)[Len(x.evs) + 1])
                            ELSE x.evs
               /\ HasEntry(AccOf(k), g, w)
               /\ Len(AccOf(k)) = Len(AccBefore(k)) - Cardinality(old)
                                    + (IF HasEntry(AccBefore(k), g, w) THEN 0 ELSE 1)
               /\ (fed = TwoThenNext /\ ProcsOf(k)[1].kind = "aggregate"
                     => /\ Len(chains[k].out) = 1
                        /\ chains[k].out[1].b = 0
                        /\ chains[k].out[1].in = Num(3))

\* The 2, 4 then 10 scenario has run on a discard chain.
C2_WitnessRollOver ==
    /\ fed = TwoThenNext
    /\ Added(1) /\ AggregatorOf(1).emit = "discard" /\ EndsInAggregator(ProcsOf(1))
    /\ Len(NewOut(1)) = 1
    /\ HasEntry(AccOf(1), GroupKey(AggregatorOf(1).group, last.ev), 1)

\* Types A, B, A with in = 2, 4, 6 in one hour.
GroupedHour == <<Event(0, "A", 2), Event(0, "B", 4), Event(1, "A", 6)>>

\* C3 as stated: with groupBy("type") and emitOn("discard"), after the three
\* events of GroupedHour and one event of the following window, exactly two
\* events have been emitted: (window, A) with avg 4 and (window, B) with avg 4.
C3_NextWindowEmitsEveryGroup ==
    \A k \in ChainIds :
        ( /\ Added(k) /\ ProcsOf(k)[1].kind = "aggregate" /\ Len(ProcsOf(k)) = 1
          /\ AggregatorOf(k).emit = "discard" /\ AggregatorOf(k).group = "type"
          /\ Len(fed) = 4 /\ SubSeq(fed, 1, 3) = GroupedHour
          /\ fed[4].kind = "event" /\ WindowKey(OneHour, fed[4]) = 1 )
        => /\ Len(chains[k].out) = 2
           /\ {[w |-> chains[k].out[j].b, type |-> chains[k].out[j].type,
                in |-> chains[k].out[j].in] : j \in 1..2}
                = {[w |-> 0, type |-> "A", in |-> Num(4)],
                   [w |-> 0, type |-> "B", in |-> Num(4)]}

----------------------------------------------------------------------------
\* Properties of the builder and of to().

BuilderOps ==
    {"from", "groupBy", "windowBy", "emitOn", "offsetBy", "aggregate",
     "asEvents", "asTimeRangeEvents", "asIndexedEvents", "to"}

\* The Pipeline the last builder call was made on, and the one it returned.
Receiver == last.pre.pipes[last.on]
Result   == pipes[Len(pipes)]

\* C4: aggregate(fields) on a Pipeline with no window state fails with
\* AggregateWithoutWindow, whatever else was configured, and no Pipeline with
\* one more processor comes out of it.
C4_AggregateNeedsWindow ==
    (last.op = "aggregate" /\ Receiver.window = 0)
    => /\ last.err = "AggregateWithoutWindow"
       /\ pipes = last.pre.pipes
       /\ chains = last.pre.chains

\* aggregate() was refused on a Pipeline built by an earlier call, which has
\* a source.
C4_WitnessRefused ==
    /\ last.op = "aggregate" /\ last.err = "AggregateWithoutWindow"
    /\ Receiver.src # "none" /\ Receiver.window = 0
    /\ Len(pipes) >= 2

\* Processors that map every event to exactly one event and never fail.
OneToOne(procs) == \A i \in 1..Len(procs) : procs[i].kind \in {"offsetBy", "asEvents"}

\* C5: to() on a bounded source hands every event of the source to the chain
\* and down to the sink before it returns; to() on an unbounded source handles
\* no event; afterwards every event added has been handled when addEvent
\* returns, so a chain is never behind its source.
C5_DrivenToCompletion ==
    /\ \A k \in ChainIds :
          LET c == chains[k]
              p == pipes[c.pid]
          IN  /\ Mode(p.src) = "stream" /\ c.attached
                   => /\ c.seen = Len(fed) - c.from
                      /\ (OneToOne(p.procs) => Len(c.out) = c.seen)
              /\ Mode(p.src) = "batch" => ~c.attached
    /\ last.op = "to"
         => LET c == chains[Len(chains)]
            IN  /\ Len(chains) = Len(last.pre.chains) + 1
                /\ c.pid = Len(pipes)
                /\ Mode(Result.src) = "stream"
                     => c.seen = 0 /\ c.out = <<>> /\ c.st = FreshState(Result.procs)
                /\ (Mode(Result.src) = "batch" /\ last.err = NoError)
                     => /\ c.seen = Len(Collection)
                        /\ (OneToOne(Result.procs) => Len(c.out) = Len(Collection))

\* to() has just drained the bounded source through one processor.
C5_WitnessDrained ==
    /\ last.op = "to" /\ Mode(Result.src) = "batch"
    /\ Len(Result.procs) = 1
    /\ Len(chains[Len(chains)].out) = Len(Collection)

\* C8: a builder method leaves every Pipeline built before as it was, in
\* every field, and returns a new Pipeline; the chains wired before, with what
\* their sinks received, are as they were.
C8_BuilderIsCopyOnWrite ==
    last.op \in BuilderOps
    => /\ \A i \in 1..Len(last.pre.pipes) : pipes[i] = last.pre.pipes[i]
       /\ last.err = NoError => Len(pipes) = Len(last.pre.pipes) + 1
       /\ (last.err # NoError /\ last.op # "to") => pipes = last.pre.pipes
       /\ \A k \in 1..Len(last.pre.chains) : chains[k] = last.pre.chains[k]

\* A builder method was called on a Pipeline that to() had terminated.
C8_WitnessAfterTo ==
    /\ last.op = "offsetBy"
    /\ Receiver.sink # "none"
    /\ Result.procs # Receiver.procs
    /\ chains # <<>>

RECURSIVE TotalOffset(_)
TotalOffset(procs) ==
    IF procs = <<>> THEN 0 ELSE Head(procs).by + TotalOffset(Tail(procs))

OnlyOffsets(procs) == \A i \in 1..Len(procs) : procs[i].kind = "offsetBy"

IsPrefix(a, b) == Len(a) <= Len(b) /\ SubSeq(b, 1, Len(a)) = a

\* C10: a Pipeline built on a terminated one continues its chain: it keeps
\* the source and the processors of the terminated Pipeline and adds its own
\* after them, its sink receives the source events as both transform them,
\* and what the sink of the terminated Pipeline received stays as it was.
C10_LinearContinuation ==
    /\ (last.op \in BuilderOps \ {"to", "from"} /\ last.err = NoError /\ Receiver.sink # "none")
         => /\ Result.cont /\ Result.sink = "none" /\ Result.src = Receiver.src
            /\ IsPrefix(Receiver.procs, Result.procs)
    /\ (last.op = "to" /\ Receiver.cont)
         => /\ Result.procs = Receiver.procs
            /\ \A k \in 1..Len(last.pre.chains) : chains[k] = last.pre.chains[k]
            /\ (Mode(Result.src) = "batch" /\ OnlyOffsets(Result.procs))
                 => chains[Len(chains)].out =
                       [j \in 1..Len(Collection) |->
                           OffsetEvent(Collection[j], TotalOffset(Result.procs))]

\* The documentation's p1 (offsetBy 1, 2) was continued by offsetBy(3) and
\* to(): its sink holds in + 6, the sink of p1 still holds in + 3.
C10_WitnessP2 ==
    /\ last.op = "to" /\ Receiver.cont /\ Len(chains) = 2
    /\ InsOf(chains[2].out) = <<Num(8), Num(10), Num(16)>>
    /\ InsOf(chains[1].out) = <<Num(5), Num(7), Num(13)>>

\* C11: from(src) called on a Pipeline that continues a terminated Pipeline
\* (which has a source) fails with UnsupportedMerge and no Pipeline or chain
\* comes out of it; every continuation has the source and, as a prefix, the
\* processors of a terminated Pipeline built before it, so no chain is fed by
\* a second source.
C11_FromOnContinuationRejected ==
    /\ (last.op = "from" /\ Receiver.src # "none"
           /\ (Receiver.cont \/ Receiver.sink # "none"))
         => /\ last.err = "UnsupportedMerge"
            /\ pipes = last.pre.pipes
            /\ chains = last.pre.chains
    /\ \A i \in 1..Len(pipes) :
          pipes[i].cont
          => \E j \in 1..(i - 1) :
                /\ pipes[j].sink # "none"
                /\ pipes[j].src = pipes[i].src
                /\ IsPrefix(pipes[j].procs, pipes[i].procs)

\* from() was refused on a continuation that had added a processor of its
\* own to the chain of a terminated Pipeline.
C11_WitnessRefusedOnContinuation ==
    /\ last.op = "from" /\ last.err = "UnsupportedMerge"
    /\ Receiver.cont /\ Receiver.sink = "none"
    /\ Len(Receiver.procs) = 3

----------------------------------------------------------------------------
\* Properties of batch against stream, close() and failures.

\* A sequence a bounded source can hold: events of a single variant.
SingleVariant(evs) == \A i, j \in 1..Len(evs) : evs[i].kind = evs[j].kind

C7_CloseFlushesDetachLoses ==
    \A k \in ChainIds :
        /\ (last.op = "close" /\ last.on = k /\ EndsInAggregator(ProcsOf(k))
              /\ AggregatorOf(k).emit = "discard")
             => /\ last.err = NoError
                /\ Len(NewOut(k)) = Len(AccBefore(k))
                /\ \A j \in 1..Len(AccBefore(k)) :
                      /\ NewOut(k)[j].kind = "indexed"
                      /\ NewOut(k)[j].b = AccBefore(k)[j].w * AggregatorOf(k).dur
                      /\ NewOut(k)[j].in = Avg(AccBefore(k)[j].evs)
                /\ AccOf(k) = <<>>
                /\ ~chains[k].attached
        /\ (last.op = "detach" /\ last.on = k)
             => /\ NewOut(k) = <<>>
                /\ chains[k].st = FreshState(ProcsOf(k))
                /\ ~chains[k].attached
        /\ (last.op = "addEvent" /\ ~last.pre.chains[k].attached)
             => chains[k] = last.pre.chains[k]

\* close() has flushed two pending entries of a discard chain.
C7_WitnessFlushedTwo ==
    /\ last.op = "close" /\ last.on = 1
    /\ EndsInAggregator(ProcsOf(1)) /\ AggregatorOf(1).emit = "discard"
    /\ Len(AccBefore(1)) = 2 /\ Len(NewOut(1)) = 2

AggregatorIndex(procs) == CHOOSE i \in 1..Len(procs) : procs[i].kind = "aggregate"

\* The events of fed that the first processor of procs accepts.
Accepted(procs, evs) ==
    SelectSeq(evs, LAMBDA ev : procs[1].kind = "asIndexedEvents" => CanConvertToIndexedEvent(ev))

\* C9: when a processor fails on an event, addEvent surfaces the failure,
\* the sink receives nothing for that event, the chain stays attached, and
\* the entries of every other (group, window) key are as they were; the
\* events added later are handled as if a rejected event had never been added.
C9_FailureLeavesOtherKeys ==
    \A k \in ChainIds :
        /\ (last.op = "addEvent" /\ last.pre.chains[k].attached /\ last.err # NoError)
             => LET a      == AggregatorIndex(ProcsOf(k))
                    p      == ProcsOf(k)[a]
                    g      == GroupKey(p.group, last.ev)
                    w      == WindowKey(p.dur, last.ev)
                    before == last.pre.chains[k].st[a]
                    after  == chains[k].st[a]
                IN  /\ last.err = "UnsupportedConversion"
                    /\ NewOut(k) = <<>>
                    /\ chains[k].attached
                    /\ \A i \in 1..Len(before) :
                          (before[i].g # g \/ before[i].w # w)
                          => EventsOf(after, before[i].g, before[i].w) = before[i].evs
                    /\ \A i \in 1..Len(after) :
                          (after[i].g # g \/ after[i].w # w)
                          => HasEntry(before, after[i].g, after[i].w)
                    /\ (a > 1 => after = before)
        /\ (chains[k].attached /\ AggregatorIndex(ProcsOf(k)) > 1)
             => chains[k].out =
                   Drain(ProcsOf(k), Accepted(ProcsOf(k), fed),
                         Run(FreshState(ProcsOf(k)), <<>>)).out

\* A discard entry failed to emit downstream and is still held beside the
\* entry of the event that superseded it.
C9_WitnessFailedEmission ==
    /\ last.op = "addEvent" /\ last.err = "UnsupportedConversion"
    /\ chains[1].attached
    /\ ProcsOf(1)[1].kind = "aggregate" /\ ProcsOf(1)[1].emit = "discard"
    /\ Len(chains[1].st[1]) = 2

----------------------------------------------------------------------------
\* Properties of the accumulation entries and of what reaches the sink.

WindowsOf(dur, evs) == [i \in 1..Len(evs) |-> WindowKey(dur, evs[i])]

NonDecreasing(seq) == \A i, j \in 1..Len(seq) : i < j => seq[i] <= seq[j]

GroupsOf(grp, evs) == {GroupKey(grp, evs[i]) : i \in 1..Len(evs)}

HasAggregator(procs) == \E i \in 1..Len(procs) : procs[i].kind = "aggregate"

\* The accumulation of the aggregator of chain k, wherever it is in the chain.
EntriesOf(k) == chains[k].st[AggregatorIndex(ProcsOf(k))]

\* Every entry was created by an event of its key and holds events of its
\* key only, and no key has two entries.
CreatedLazily(k) ==
    LET p   == ProcsOf(k)[AggregatorIndex(ProcsOf(k))]
        acc == EntriesOf(k)
    IN  \A i \in 1..Len(acc) :
           /\ acc[i].evs # <<>>
           /\ \A j \in 1..Len(acc[i].evs) :
                 /\ GroupKey(p.group, acc[i].evs[j]) = acc[i].g
                 /\ WindowKey(p.dur, acc[i].evs[j]) = acc[i].w
           /\ \E j \in 1..Len(fed) :
                 /\ GroupKey(p.group, fed[j]) = acc[i].g
                 /\ WindowKey(p.dur, fed[j]) = acc[i].w
           /\ \A j \in 1..Len(acc) : (acc[j].g = acc[i].g /\ acc[j].w = acc[i].w) => j = i

\* No entry of the group of the event last added is of an earlier window.
RolledOver(k) ==
    LET p == ProcsOf(k)[AggregatorIndex(ProcsOf(k))]
    IN  \A i \in 1..Len(EntriesOf(k)) :
           ~(/\ EntriesOf(k)[i].g = GroupKey(p.group, last.ev)
             /\ EntriesOf(k)[i].w < WindowKey(p.dur, last.ev))

\* At most one live entry per group fed.
BoundedByGroups(k) ==
    LET p == ProcsOf(k)[AggregatorIndex(ProcsOf(k))]
    IN  Len(EntriesOf(k)) <= Cardinality(GroupsOf(p.group, fed))

\* The last call was an addEvent that reached the aggregator of chain k.
ReachedAggregator(k) ==
    /\ last.op = "addEvent"
    /\ last.pre.chains[k].attached
    /\ AggregatorIndex(ProcsOf(k)) > 1 => last.err = NoError

StillMaintained(k) ==
    LET p == AggregatorOf(k)
    IN  SelectSeq(AccBefore(k),
                  LAMBDA x : ~(/\ x.g = GroupKey(p.group, last.ev)
                               /\ x.w < WindowKey(p.dur, last.ev)))

\* C17: with emitOn("eachEvent"), when an event comes in every collection
\* maintained emits its result: each entry held before the event and not
\* rolled over by it emits, the entries of other keys with the result they
\* had, and so does the entry of the event; nothing else is emitted.
C17_AllMaintainedEmit ==
    \A k \in ChainIds :
        (Added(k) /\ EndsInAggregator(ProcsOf(k)) /\ AggregatorOf(k).emit = "eachEvent")
        => LET p    == AggregatorOf(k)
               g    == GroupKey(p.group, last.ev)
               w    == WindowKey(p.dur, last.ev)
               held == StillMaintained(k)
           IN  /\ Len(NewOut(k)) = Len(held) + (IF HasEntry(held, g, w) THEN 0 ELSE 1)
               /\ \A i \in 1..Len(held) :
                     /\ NewOut(k)[i].kind = "indexed"
                     /\ NewOut(k)[i].b = held[i].w * p.dur
                     /\ NewOut(k)[i].e = (held[i].w + 1) * p.dur
                     /\ p.group = "type" => NewOut(k)[i].type = held[i].g
                     /\ (held[i].g # g \/ held[i].w # w)
                          => /\ NewOut(k)[i].in = Avg(held[i].evs)
                             /\ NewOut(k)[i].type = Keep(held[i].evs)
                     /\ (held[i].g = g /\ held[i].w = w)
                          => /\ NewOut(k)[i].in
                                  = Avg(Append(held[i].evs, [in |-> last.ev.in]))
                             /\ NewOut(k)[i].type = last.ev.type
               /\ ~HasEntry(held, g, w)
                    => /\ NewOut(k)[Len(NewOut(k))].b = w * p.dur
                       /\ NewOut(k)[Len(NewOut(k))].in = last.ev.in
                       /\ NewOut(k)[Len(NewOut(k))].type = last.ev.type

\* An event of a new key came in while two collections of other keys were
\* maintained: three results were emitted.
C17_WitnessThreeEmit ==
    /\ Added(1) /\ EndsInAggregator(ProcsOf(1)) /\ AggregatorOf(1).emit = "eachEvent"
    /\ Len(AccBefore(1)) = 2 /\ Len(StillMaintained(1)) = 2
    /\ Len(NewOut(1)) = 3
    /\ NewOut(1)[1].in = Avg(AccBefore(1)[1].evs)
    /\ NewOut(1)[2].in = Avg(AccBefore(1)[2].evs)

----------------------------------------------------------------------------
\* Properties of chains without windowing.

NoAggregator(procs) == ~HasAggregator(procs)

\* What one offsetting or converting processor makes of an event.
Step(proc, ev) ==
    CASE proc.kind = "offsetBy" -> OffsetEvent(ev, proc.by)
      [] proc.kind = "asEvents" -> ConvertToEvent(ev, proc.align)
      [] proc.kind = "asTimeRangeEvents" -> ConvertToTimeRangeEvent(ev, proc.dur, proc.align)
      [] OTHER -> ConvertToIndexedEvent(ev, proc.dur)

\* The event that leaves the processors, applied first to last.
RECURSIVE Through(_, _)
Through(procs, ev) ==
    IF procs = <<>> THEN ev ELSE Through(Tail(procs), Step(Head(procs), ev))

\* One of the processors refuses what reaches it.
RECURSIVE Fails(_, _)
Fails(procs, ev) ==
    /\ procs # <<>>
    /\ \/ Head(procs).kind = "asIndexedEvents" /\ ev.kind = "timerange"
       \/ Fails(Tail(procs), Step(Head(procs), ev))

\* The source events chain k has been handed.
InputsOf(k) ==
    IF Mode(pipes[chains[k].pid].src) = "batch" THEN SubSeq(Collection, 1, chains[k].seen)
    ELSE SubSeq(fed, chains[k].from + 1, chains[k].from + chains[k].seen)

ThroughAll(procs, evs) ==
    LET ok == SelectSeq(evs, LAMBDA ev : ~Fails(procs, ev))
    IN  [j \in 1..Len(ok) |-> Through(procs, ok[j])]

\* C16: on an unbounded source, with no aggregation and a Collector sink,
\* every addEvent adds the processed event to the one collection the sink
\* holds and hands it to the callback: after the k-th addEvent the collection
\* is the k processed events in arrival order.
C16_CollectorHoldsEveryEvent ==
    \A k \in ChainIds :
        ( /\ Mode(pipes[chains[k].pid].src) = "stream" /\ chains[k].attached
          /\ pipes[chains[k].pid].sink = "Collector" /\ NoAggregator(ProcsOf(k))
          /\ \A j \in 1..Len(fed) : ~Fails(ProcsOf(k), fed[j]) )
        => /\ Len(chains[k].out) = Len(fed)
           /\ \A j \in 1..Len(fed) : chains[k].out[j] = Through(ProcsOf(k), fed[j])
           /\ Added(k)
                => /\ Len(NewOut(k)) = 1
                   /\ chains[k].out = Append(last.pre.chains[k].out,
                                             Through(ProcsOf(k), last.ev))

\* The streaming example of the documentation (offsetBy 3, Collector): two
\* events were added, the later timestamp first.
C16_WitnessTwoCollected ==
    /\ pipes[1].src = "input" /\ pipes[1].sink = "Collector"
    /\ ProcsOf(1) = <<Offset(3)>>
    /\ fed = <<Event(1, "B", 2), Event(0, "A", 5)>>
    /\ Added(1)
    /\ InsOf(chains[1].out) = <<Num(5), Num(8)>>

\* C18: asEvents turns every TimeRangeEvent or IndexedEvent of range [b, e]
\* into exactly one Event with the same data, delivered within the addEvent
\* that brought it and with nothing held back; its timestamp is b for "lag",
\* the midpoint of b and e for "center", e for "lead".  An IndexedEvent of
\* the hour beginning at T, with "center", gives T plus half an hour.
C18_AsEventsAlignment ==
    \A k \in ChainIds :
        /\ (Added(k) /\ Len(ProcsOf(k)) = 1 /\ ProcsOf(k)[1].kind = "asEvents"
              /\ last.ev.kind \in {"timerange", "indexed"})
             => /\ Len(NewOut(k)) = 1
                /\ chains[k].st = FreshState(ProcsOf(k))
                /\ LET out   == NewOut(k)[1]
                       align == ProcsOf(k)[1].align
                   IN  /\ out.kind = "event" /\ out.e = out.b
                       /\ out.type = last.ev.type /\ out.in = last.ev.in
                       /\ align = "lag" => out.b = last.ev.b
                       /\ align = "center" => 2 * out.b = last.ev.b + last.ev.e
                       /\ align = "lead" => out.b = last.ev.e
        /\ (Added(k) /\ ProcsOf(k) = <<IndexedConverter(OneHour), EventConverter("center")>>)
             => /\ Len(NewOut(k)) = 1
                /\ NewOut(k)[1].kind = "event"
                /\ 2 * NewOut(k)[1].b
                     = 2 * (IndexBucket(OneHour, last.ev.b) * OneHour) + OneHour
                /\ NewOut(k)[1].in = last.ev.in

\* The IndexedEvent of the second hour went through asEvents("center").
C18_WitnessCenterOfHour ==
    /\ Added(1) /\ ProcsOf(1) = <<EventConverter("center")>>
    /\ last.ev = IndexedEventAt(OneHour, 1, "B", Num(6))
    /\ NewOut(1) = <<[Event(3, "B", 6) EXCEPT !.in = Num(6)]>>

\* C19: on a chain without aggregation the sink holds what the processors
\* make of the source events, in the order the events arrived, one source
\* event's output after the other's; on every chain what an addEvent delivers
\* comes after everything delivered before it.
C19_ArrivalOrder ==
    \A k \in ChainIds :
        /\ NoAggregator(ProcsOf(k))
             => /\ chains[k].out = ThroughAll(ProcsOf(k), InputsOf(k))
                /\ Added(k) => NewOut(k) = ThroughAll(ProcsOf(k), <<last.ev>>)
        /\ (last.op = "addEvent" /\ k \in 1..Len(last.pre.chains))
             => IsPrefix(last.pre.chains[k].out, chains[k].out)

\* Three events of two variants went through offsetBy(3), the latest
\* timestamp first.
C19_WitnessThreeInOrder ==
    /\ ProcsOf(1) = <<Offset(3)>> /\ pipes[1].src = "input"
    /\ fed = <<Event(2, "A", 1), TimeRangeEvent(0, 2, "A", 4), Event(0, "A", 5)>>
    /\ Added(1)
    /\ InsOf(chains[1].out) = <<Num(4), Num(7), Num(8)>>
    /\ [j \in 1..3 |-> chains[1].out[j].b] = <<2, 0, 0>>

\* The processor lists of the Pipelines built, in the order of the calls.
ChainsBuilt ==
    {<<Offset(1), Offset(2)>>, <<Offset(3)>>,
     <<TimeRangeConverter(OneHour, "front"), EventConverter("lead")>>,
     <<IndexedConverter(OneHour), EventConverter("center")>>}
    \cup {<<EventConverter(align)>> : align \in {"lag", "center", "lead"}}
    \cup {<<Aggregator(OneHour, "type", emt)>> : emt \in {"eachEvent", "discard"}}

\* C20: the processors of a Pipeline are in the order of the calls that
\* appended them and are applied in that order: after offsetBy(a) and
\* offsetBy(b) an event with in = v gives one event with in = v + a + b and
\* everything else as it was (1 then 2 on in = 5 gives 8), and the event added
\* is as it was; asTimeRangeEvents("front") then asEvents("lead") gives the
\* Event one duration later.
C20_AppliedInOrderAppended ==
    \A k \in ChainIds :
        /\ ProcsOf(k) \in ChainsBuilt
        /\ (Len(ProcsOf(k)) = 2 /\ OnlyOffsets(ProcsOf(k)))
             => /\ Added(k)
                     => /\ Len(NewOut(k)) = 1
                        /\ NewOut(k)[1] =
                              [last.ev EXCEPT !.in =
                                  FracAdd(@, Num(ProcsOf(k)[1].by + ProcsOf(k)[2].by))]
                        /\ last.ev.in = Num(5) => NewOut(k)[1].in = Num(8)
                        /\ fed[Len(fed)] = last.ev
                /\ Mode(pipes[chains[k].pid].src) = "batch"
                     => InsOf(chains[k].out) = <<Num(5), Num(7), Num(13)>>
        /\ (Added(k) /\ Len(ProcsOf(k)) = 2 /\ ProcsOf(k)[2].kind = "asEvents"
              /\ ProcsOf(k)[1].kind = "asTimeRangeEvents" /\ last.ev.kind = "event")
             => NewOut(k) = <<[last.ev EXCEPT !.b = @ + OneHour, !.e = @ + OneHour]>>

\* The event with in = 5 went through offsetBy(1) and offsetBy(2).
C20_WitnessFiveToEight ==
    /\ Added(1) /\ ProcsOf(1) = <<Offset(1), Offset(2)>>
    /\ last.ev = Event(0, "A", 5)
    /\ NewOut(1) = <<[Event(0, "A", 5) EXCEPT !.in = Num(8)]>>

----------------------------------------------------------------------------
\* Properties of the Event API.

\* Two of the events differ in their variant or in their time.
KeysDiffer(events) ==
    \E i, j \in 1..Len(events) :
        \/ events[i].kind # events[j].kind
        \/ events[i].b # events[j].b
        \/ events[i].e # events[j].e
        \/ events[i].dur # events[j].dur

\* The inputs that have field k.
Having(events, k) == {i \in 1..Len(events) : k \in DOMAIN events[i].data}

FieldsOf(events) == UNION {DOMAIN events[i].data : i \in 1..Len(events)}

Greatest(S) == CHOOSE x \in S : \A y \in S : y <= x

\* C12: Event.merge over events of one time key (timestamp, index or
\* timerange) returns one event of that variant and time key; its fields are
\* the union of the inputs' fields, a field of a single input keeps that
\* input's value and a field of several inputs has the value of the right-most
\* of them; over events whose time keys differ it fails with
\* IncompatibleMerge and returns nothing.
C12_MergeIsRightmostUnion ==
    last.op = "merge"
    => LET events == last.on
       IN  /\ ~KeysDiffer(events)
                => /\ last.err = NoError
                   /\ last.ev.kind = events[1].kind
                   /\ last.ev.b = events[1].b /\ last.ev.e = events[1].e
                   /\ last.ev.dur = events[1].dur
                   /\ DOMAIN last.ev.data = FieldsOf(events)
                   /\ \A k \in FieldsOf(events) :
                         /\ last.ev.data[k] = events[Greatest(Having(events, k))].data[k]
                         /\ \A i \in 1..Len(events) :
                               Having(events, k) = {i} => last.ev.data[k] = events[i].data[k]
           /\ KeysDiffer(events)
                => last.err = "IncompatibleMerge" /\ last.ev = NoEvent

\* Three IndexedEvents of one index were merged: field b is in the second
\* only, field a is in the first and the third with different values.
C12_WitnessCollision ==
    /\ last.op = "merge" /\ last.err = NoError /\ Len(last.on) = 3
    /\ last.on[1].kind = "indexed"
    /\ Having(last.on, "b") = {2}
    /\ Having(last.on, "a") = {1, 3}
    /\ last.on[1].data["a"] = 2 /\ last.on[3].data["a"] = 5
    /\ last.ev.data["a"] = 5 /\ last.ev.data["b"] = 5

\* The sum of field k over the events that have it.
RECURSIVE FieldTotal(_, _)
FieldTotal(events, k) ==
    IF events = <<>> THEN 0
    ELSE (IF k \in DOMAIN Head(events).data THEN Head(events).data[k] ELSE 0)
         + FieldTotal(Tail(events), k)

Reorderings(n) ==
    {f \in [1..n -> 1..n] : \A i, j \in 1..n : f[i] = f[j] => i = j}

Permuted(events, f) == [i \in 1..Len(events) |-> events[f[i]]]

\* C13: Event.sum over events of one timestamp returns one event at that
\* timestamp whose fields are the field-wise sums of the inputs' fields, and
\* every permutation of the list gives the same event; over events whose
\* timestamps differ it fails with "sum() expects all events to have the same
\* timestamp" and returns nothing.
C13_SumIsFieldwiseAndSymmetric ==
    last.op = "sum"
    => LET events == last.on
       IN  /\ ~KeysDiffer(events)
                => /\ last.err = NoError
                   /\ last.ev.kind = events[1].kind
                   /\ last.ev.b = events[1].b /\ last.ev.e = events[1].e
                   /\ DOMAIN last.ev.data = FieldsOf(events)
                   /\ \A k \in FieldsOf(events) :
                         last.ev.data[k] = FieldTotal(events, k)
                   /\ \A f \in Reorderings(Len(events)) :
                         /\ SumError(Permuted(events, f)) = NoError
                         /\ Sum(Permuted(events, f)) = last.ev
           /\ KeysDiffer(events)
                => /\ last.err = "sum() expects all events to have the same timestamp"
                   /\ last.ev = NoEvent

\* Three Events of one timestamp with different values of a were summed.
C13_WitnessThreeSummed ==
    /\ last.op = "sum" /\ last.err = NoError /\ Len(last.on) = 3
    /\ last.on[1].kind = "event"
    /\ Having(last.on, "a") = {1, 2, 3}
    /\ last.on[1].data["a"] = 5 /\ last.on[2].data["a"] = 2 /\ last.on[3].data["a"] = 2
    /\ last.ev.data["a"] = 9

\* The string "<count><unit>-<bucket>".
IndexString(count, unit, bucket) ==
    ToDigits(count) \o <<unit, "-">> \o ToDigits(bucket)

\* The well-formed strings tried other than str that stand for the range of idx.
SameRange(str, idx) ==
    {other \in IndexStrings :
        /\ other # str /\ WellFormed(other)
        /\ ParseIndex(other).b = idx.b /\ ParseIndex(other).e = idx.e}

Day12355 == <<"1", "d", "-", "1", "2", "3", "5", "5">>

\* An index string of a valid duration and bucket parses to the range
\* [bucket * duration, (bucket + 1) * duration), and the string of the Index
\* parsed is the string itself; "1d-12355" is Thu 30 Oct 2003 00:00 UTC to
\* Fri 31 Oct 2003 00:00 UTC.
ParsesAndRoundTrips ==
    /\ \A c \in Counts \cup {1}, u \in Units, n \in Buckets \cup {12355} :
          last.on = IndexString(c, u, n)
          => /\ last.err = NoError
             /\ last.ev.count = c /\ last.ev.unit = u /\ last.ev.bucket = n
             /\ last.ev.b = n * (c * UnitSeconds(u))
             /\ last.ev.e = (n + 1) * (c * UnitSeconds(u))
             /\ SerializeIndex(last.ev) = last.on
    /\ last.on = Day12355
          => /\ UTCDate(last.ev.b)
                  = [weekday |-> 4, day |-> 30, month |-> 10, year |-> 2003, secs |-> 0]
             /\ UTCDate(last.ev.e)
                  = [weekday |-> 5, day |-> 31, month |-> 10, year |-> 2003, secs |-> 0]

----------------------------------------------------------------------------
\* Properties of "discard" under events that arrive out of window order.

\* The chain is one aggregator with emitOn("discard"), attached since before
\* the first event was added.
DiscardOnly(k) ==
    /\ chains[k].attached /\ chains[k].from = 0
    /\ Len(ProcsOf(k)) = 1
    /\ ProcsOf(k)[1].kind = "aggregate" /\ ProcsOf(k)[1].emit = "discard"

\* The position in evs of the last event that superseded key (g, w): an event
\* of group g whose window begins later; 0 when there is none.
LastSuperseding(p, evs, g, w) ==
    Greatest({0} \cup {j \in 1..Len(evs) :
                          /\ GroupKey(p.group, evs[j]) = g
                          /\ WindowKey(p.dur, evs[j]) * p.dur > w * p.dur})

\* The events of key (g, w) that arrived after the key was last superseded.
ArrivedSince(p, evs, g, w) ==
    SelectSeq(SubSeq(evs, LastSuperseding(p, evs, g, w) + 1, Len(evs)),
              LAMBDA ev : GroupKey(p.group, ev) = g /\ WindowKey(p.dur, ev) = w)

\* The events added before the last one.
FedBefore == SubSeq(fed, 1, Len(fed) - 1)

\* The key (g, w) has emitted: an event of the key was followed by an event
\* of its group in a later window.
EmittedBefore(p, evs, g, w) ==
    \E i, j \in 1..Len(evs) :
        /\ i < j
        /\ GroupKey(p.group, evs[i]) = g /\ WindowKey(p.dur, evs[i]) = w
        /\ GroupKey(p.group, evs[j]) = g /\ WindowKey(p.dur, evs[j]) > w

\* C21: with emitOn("discard"), an event whose (group, window) key has
\* already been emitted and discarded goes into a fresh entry: its arrival
\* emits nothing, the entry holds the events of the key that arrived after
\* the discard and no others, and what the key emits later is the aggregate
\* of those events alone.  An entry is superseded only by an event of its
\* group whose window begins later: an event that arrives later for a window
\* that begins earlier leaves the entries of the later windows as they were.
C21_LateEventStartsFreshEntry ==
    \A k \in ChainIds :
        DiscardOnly(k)
        => LET p == ProcsOf(k)[1]
               g == GroupKey(p.group, last.ev)
               w == WindowKey(p.dur, last.ev)
           IN  /\ \A i \in 1..Len(AccOf(k)) :
                     AccOf(k)[i].evs = ArrivedSince(p, fed, AccOf(k)[i].g, AccOf(k)[i].w)
               /\ \A j \in 1..Len(fed) :
                     LET gj == GroupKey(p.group, fed[j])
                         wj == WindowKey(p.dur, fed[j])
                     IN  HasEntry(AccOf(k), gj, wj) <=> ArrivedSince(p, fed, gj, wj) # <<>>
               /\ Added(k)
                    => /\ \A j \in 1..Len(NewOut(k)) :
                             LET wj == NewOut(k)[j].b \div p.dur
                             IN  /\ wj * p.dur < w * p.dur
                                 /\ NewOut(k)[j].in = Avg(ArrivedSince(p, FedBefore, g, wj))
                                 /\ NewOut(k)[j].type = Keep(ArrivedSince(p, FedBefore, g, wj))
                       /\ \A i, j \in 1..Len(NewOut(k)) :
                             i < j => NewOut(k)[i].b < NewOut(k)[j].b
                       /\ \A i \in 1..Len(AccBefore(k)) :
                             (AccBefore(k)[i].g = g /\ AccBefore(k)[i].w * p.dur > w * p.dur)
                             => EventsOf(AccOf(k), g, AccBefore(k)[i].w) = AccBefore(k)[i].evs
                       /\ (EmittedBefore(p, FedBefore, g, w) /\ ~HasEntry(AccBefore(k), g, w))
                            => /\ EventsOf(AccOf(k), g, w) = <<last.ev>>
                               /\ \A j \in 1..Len(NewOut(k)) : NewOut(k)[j].b # w * p.dur

\* The first hour emitted avg 2 when the second hour began; a late event of
\* the first hour with in = 4 then started a fresh entry next to the entry of
\* the second hour, and the next event of the second hour made it emit avg 4.
C21_WitnessLateThenEmitted ==
    /\ DiscardOnly(1) /\ Added(1)
    /\ fed = <<Event(0, "A", 2), Event(2, "A", 10), Event(1, "A", 4), Event(2, "A", 10)>>
    /\ InsOf(chains[1].out) = <<Num(2), Num(4)>>
    /\ chains[1].out[2].b = 0
    /\ Len(AccBefore(1)) = 2
    /\ EventsOf(AccBefore(1), GroupKey(ProcsOf(1)[1].group, last.ev), 0) = <<Event(1, "A", 4)>>

----------------------------------------------------------------------------
\* Properties of the event an aggregation emits.

\* The entry an aggregator holds for a collection of events, with field k of
\* the events as the field "in" it reduces and "name" as the field it keeps.
EntryOf(events, k) ==
    [g |-> "*", w |-> WindowKey(OneHour, events[1]),
     evs |-> [i \in 1..Len(events) |->
                [kind |-> "event", b |-> events[i].b, e |-> events[i].e, dur |-> 0,
                 type |-> events[i].data["name"], in |-> Num(events[i].data[k])]]]

\* x is the exact quotient of total by n, in lowest terms.
IsQuotient(x, total, n) ==
    /\ x.den > 0
    /\ GCD(Abs(x.num), x.den) = 1
    /\ x.num * n = x.den * total

\* C22: reducing the fields of a collection gives exactly one value per field
\* of the field specification, the reducer applied to the values of that
\* field over the events in insertion order: avg gives the exact mean (5 for
\* in = 2, 4, 6, 8 and 14.25 for out = 11, 13, 15, 18) and keep the value of
\* the last event; and what an aggregator emits for an entry holding the
\* collection is one IndexedEvent whose Index is the entry's window and whose
\* values are those.
C22_EmissionReducesEachField ==
    last.op = "mapReduce"
    => LET events  == last.on[1]
           fields  == last.on[2]
           reducer == last.on[3]
           result  == last.ev
       IN  /\ DOMAIN result = fields
           /\ reducer = "avg"
                => /\ \A k \in fields :
                         IsQuotient(result[k], FieldTotal(events, k), Len(events))
                   /\ \A k \in fields :
                         LET x == AggregateEntry(EntryOf(events, k), OneHour)
                         IN  /\ x.kind = "indexed" /\ x.dur = OneHour
                             /\ x.b = WindowKey(OneHour, events[1]) * OneHour
                             /\ x.e = x.b + OneHour
                             /\ x.b <= events[1].b /\ events[1].b < x.e
                             /\ x.in = result[k]
                             /\ x.type = MapReduce(events, {"name"}, "keep")["name"]
                   /\ events = EVENT_LIST
                        => /\ "in" \in fields => result["in"] = Num(5)
                           /\ "out" \in fields => result["out"] = [num |-> 57, den |-> 4]
           /\ reducer = "keep"
                => \A k \in fields : result[k] = events[Len(events)].data[k]

\* in and out of the four events of the list were reduced with avg: 5 and
\* 14.25.
C22_WitnessInAndOut ==
    /\ last.op = "mapReduce"
    /\ last.on = <<EVENT_LIST, {"in", "out"}, "avg">>
    /\ last.ev = [in |-> Num(5), out |-> [num |-> 57, den |-> 4]]

----------------------------------------------------------------------------
\* Properties of chains subscribed to one source.

\* What a chain with processors procs holds once the events evs have been
\* added to a source it is the only subscriber of.
RECURSIVE Alone(_, _, _)
Alone(procs, evs, r) ==
    IF evs = <<>> THEN r
    ELSE Alone(procs, Tail(evs),
               Handed(Push(procs, 1, Head(evs), [r EXCEPT !.err = NoError])))

\* The events added since chain k was subscribed.
SinceSubscribed(k) == SubSeq(fed, chains[k].from + 1, Len(fed))

\* Both aggregating Pipelines of the prefix are subscribed.
BothSubscribed ==
    /\ Len(chains) = 2
    /\ chains[1].attached /\ chains[2].attached
    /\ ProcsOf(1) # ProcsOf(2)
    /\ pipes[chains[1].pid].src = pipes[chains[2].pid].src

\* C23: the accumulation of a chain is its own.  When the Pipelines derived
\* from one prefix are each terminated by to() on the same unbounded source,
\* every addEvent is handed to each subscribed chain, and the entries and
\* the emissions of a chain are those it would have as the only subscriber of
\* the source, whatever the other chain was handed, holds or emitted; to(),
\* close() and detaching act on one chain and leave the others as they were.
C23_AccumulationOwnedByOneChain ==
    \A k \in ChainIds :
        /\ chains[k].attached
             => LET r == Alone(ProcsOf(k), SinceSubscribed(k),
                               Run(FreshState(ProcsOf(k)), <<>>))
                IN  /\ chains[k].st = r.st
                    /\ chains[k].out = r.out
                    /\ chains[k].seen = Len(SinceSubscribed(k))
        /\ (last.op = "addEvent" /\ k <= Len(last.pre.chains)
              /\ last.pre.chains[k].attached)
             => /\ chains[k].seen = last.pre.chains[k].seen + 1
                /\ fed = Append(SubSeq(fed, 1, Len(fed) - 1), last.ev)
        /\ (last.op \in {"close", "detach"} /\ last.on # k)
             => chains[k] = last.pre.chains[k]
        /\ (last.op = "to" /\ k <= Len(last.pre.chains))
             => chains[k] = last.pre.chains[k]

\* Both chains were handed the last event; the second was subscribed after
\* the first event, both have emitted and they hold different entries.
C23_WitnessTwoSubscribers ==
    /\ BothSubscribed
    /\ Added(1) /\ Added(2)
    /\ chains[1].from = 0 /\ chains[2].from = 1
    /\ chains[1].seen = 3 /\ chains[2].seen = 2
    /\ chains[1].out # <<>> /\ chains[2].out # <<>>
    /\ chains[1].st # chains[2].st

----------------------------------------------------------------------------
\* Properties of what "discard" does with every event.

\* The events of evs that have key (g, w), in the order of evs.
OfKey(p, evs, g, w) ==
    SelectSeq(evs, LAMBDA ev : GroupKey(p.group, ev) = g /\ WindowKey(p.dur, ev) = w)

\* The aggregates in out that carry key (g, w), in the order of out.
AggregatesOfKey(p, out, g, w) ==
    SelectSeq(out, LAMBDA x : /\ x.kind = "indexed"
                              /\ x.b = w * p.dur
                              /\ p.group = "type" => x.type = g)

\* The events evs of one key are each in exactly one place: they split into
\* consecutive runs, one per aggregate of aggs and in that order, each
\* aggregate being the result of its run, followed by the events held.
Accounted(evs, aggs, held) ==
    \E ends \in [1..Len(aggs) -> 1..Len(evs)] :
        LET from(m) == IF m = 1 THEN 1 ELSE ends[m - 1] + 1
            rest    == IF Len(aggs) = 0 THEN 1 ELSE ends[Len(aggs)] + 1
        IN  /\ \A m \in 1..Len(aggs) :
                  /\ from(m) <= ends[m]
                  /\ aggs[m].in = Avg(SubSeq(evs, from(m), ends[m]))
                  /\ aggs[m].type = Keep(SubSeq(evs, from(m), ends[m]))
            /\ held = SubSeq(evs, rest, Len(evs))

\* The key an aggregate carries.
KeyOfAggregate(p, x) ==
    [g |-> IF p.group = "type" THEN x.type ELSE "*", w |-> x.b \div p.dur]

KeysOf(p, evs) ==
    {[g |-> GroupKey(p.group, evs[i]), w |-> WindowKey(p.dur, evs[i])] : i \in 1..Len(evs)}

\* Every event of evs is in exactly one live entry of acc or in exactly one
\* aggregate of out, which carries its key; nothing else is in acc or out.
Conserved(p, evs, acc, out) ==
    /\ \A key \in KeysOf(p, evs) :
          Accounted(OfKey(p, evs, key.g, key.w),
                    AggregatesOfKey(p, out, key.g, key.w),
                    EventsOf(acc, key.g, key.w))
    /\ \A m \in 1..Len(out) : KeyOfAggregate(p, out[m]) \in KeysOf(p, evs)
    /\ \A e \in 1..Len(acc) : [g |-> acc[e].g, w |-> acc[e].w] \in KeysOf(p, evs)
    /\ \A e, f \in 1..Len(acc) : (acc[e].g = acc[f].g /\ acc[e].w = acc[f].w) => e = f

\* close() has just returned on chain k.
JustClosed(k) == last.op = "close" /\ last.on = k

\* The events that have reached the aggregator of chain k.
AggregatorInputs(k) ==
    ThroughAll(SubSeq(ProcsOf(k), 1, AggregatorIndex(ProcsOf(k)) - 1), fed)

----------------------------------------------------------------------------
\* Properties of the connection to() makes.

\* x is the aggregate of some run of consecutive events of evs.
AggregateOfRun(x, evs) ==
    \E a, b \in 1..Len(evs) :
        /\ a <= b
        /\ x.in = Avg(SubSeq(evs, a, b))
        /\ x.type = Keep(SubSeq(evs, a, b))

\* C25: the connection to the source is made by to() and by nothing else.  A
\* Pipeline that has a source and no sink has no chain, and an event added
\* while no chain is connected is processed by nothing; to() on an unbounded
\* source connects a chain that holds nothing and has delivered nothing,
\* whatever was added before; and from then on what the chain holds and what
\* its sink receives comes from the events added after that to() only.
C25_ConnectionMadeByTo ==
    /\ \A i \in 1..Len(pipes) :
          (pipes[i].sink = "none" \/ pipes[i].src = "none")
          => \A k \in ChainIds : chains[k].pid # i
    /\ (last.op = "addEvent" /\ \A k \in ChainIds : ~last.pre.chains[k].attached)
         => /\ chains = last.pre.chains
            /\ last.err = NoError
    /\ (last.op = "to" /\ Mode(Result.src) = "stream")
         => LET c == chains[Len(chains)]
            IN  /\ c.from = Len(fed)
                /\ c.out = <<>> /\ c.seen = 0
                /\ c.st = FreshState(Result.procs)
                /\ c.attached
    /\ \A k \in ChainIds :
          (chains[k].attached /\ EndsInAggregator(ProcsOf(k)))
          => LET p   == AggregatorOf(k)
                 evs == SinceSubscribed(k)
             IN  /\ chains[k].seen = Len(evs)
                 /\ \A e \in 1..Len(AccOf(k)) :
                       LET own == OfKey(p, evs, AccOf(k)[e].g, AccOf(k)[e].w)
                       IN  /\ Len(AccOf(k)[e].evs) <= Len(own)
                           /\ AccOf(k)[e].evs
                                 = SubSeq(own, Len(own) - Len(AccOf(k)[e].evs) + 1, Len(own))
                 /\ \A m \in 1..Len(chains[k].out) :
                       LET key == KeyOfAggregate(p, chains[k].out[m])
                       IN  AggregateOfRun(chains[k].out[m], OfKey(p, evs, key.g, key.w))

\* An event was added while no chain was connected; to() was called, and an
\* event of the same key was added: the sink received the aggregate of the
\* second event alone.
C25_WitnessAddedBeforeTo ==
    /\ Len(chains) = 1 /\ Added(1)
    /\ chains[1].from = 1 /\ Len(fed) = 2
    /\ fed[1] = fed[2]
    /\ AggregatorOf(1).emit = "eachEvent"
    /\ Len(AccOf(1)) = 1 /\ AccOf(1)[1].evs = <<fed[2]>>
    /\ Len(chains[1].out) = 1
    /\ chains[1].out[1].in = fed[2].in

====
